---- MODULE Spec2Model ----
(***************************************************************************)
(* Model of zf2209/etl_validator:                                          *)
(*   - validation/validator.py         ontology_validator                   *)
(*   - validation/validation_utils.py  validate_iso2                        *)
(*   - transformer/ColumnBinner.py     ColumnBinner.transform               *)
(*                                                                         *)
(* Strings whose characters matter (country cells) are sequences of        *)
(* one-character strings; cell values are tagged records; the name         *)
(* "{col}_{rule}" of a cell-result column is the pair <<col, rule>>, the   *)
(* name of a plain column col is <<col>>.                                  *)
(***************************************************************************)
EXTENDS Integers, Sequences, FiniteSets, TLC

VARIABLES
    pc,            \* position of the run of ontology_validator
    df,            \* the input dataframe
    cfg,           \* the other arguments of ontology_validator
    result_df,     \* summary table (sequence of summary rows)
    result_index,  \* per-cell result table
    k,             \* position in the registry being iterated
    executed,      \* log of the validator calls made, in order
    ret,           \* the returned nine-tuple, or the raised error
    isoDf,         \* validate_iso2 called on its own: its dataframe
    isoRet,        \* ... and what it returned
    fuzzy,         \* the queries the rest of pycountry's data finds a match for
    binX,          \* ColumnBinner.transform: the from_column of X
    binSelf,       \* ... the transformer's parameters and X's library
    binRet         \* ... the to_column written, or the error raised

vars == <<pc, df, cfg, result_df, result_index, k, executed, ret,
          isoDf, isoRet, fuzzy, binX, binSelf, binRet>>

(***************************************************************************)
(* Bounds                                                                  *)
(***************************************************************************)
\* rows of the dataframe given to ontology_validator
NRows == 2
\* rows of the dataframe given to validate_iso2 alone
IsoRows == 2
\* rows of the dataframe given to ColumnBinner.transform
BinRows == 2

(***************************************************************************)
(* Cell values                                                             *)
(***************************************************************************)
Null == [t |-> "null"]
IntV(n) == [t |-> "int", i |-> n]
StrV(s) == [t |-> "str", s |-> s]
BoolV(b) == [t |-> "bool", b |-> b]

isnull(x) == x.t = "null"
isstr(x) == x.t = "str"

Range(s) == {s[i] : i \in 1..Len(s)}

\* str.lower() on one character
LowerChar(ch) ==
    CASE ch = "A" -> "a" [] ch = "B" -> "b" [] ch = "C" -> "c" [] ch = "D" -> "d"
      [] ch = "E" -> "e" [] ch = "F" -> "f" [] ch = "G" -> "g" [] ch = "H" -> "h"
      [] ch = "I" -> "i" [] ch = "J" -> "j" [] ch = "K" -> "k" [] ch = "L" -> "l"
      [] ch = "M" -> "m" [] ch = "N" -> "n" [] ch = "O" -> "o" [] ch = "P" -> "p"
      [] ch = "Q" -> "q" [] ch = "R" -> "r" [] ch = "S" -> "s" [] ch = "T" -> "t"
      [] ch = "U" -> "u" [] ch = "V" -> "v" [] ch = "W" -> "w" [] ch = "X" -> "x"
      [] ch = "Y" -> "y" [] ch = "Z" -> "z" [] OTHER -> ch

\* str.lower()
lower(s) == [i \in 1..Len(s) |-> LowerChar(s[i])]

\* Python's `sub in s` on strings
InStr(sub, s) ==
    \E i \in 0..(Len(s) - Len(sub)) : SubSeq(s, i + 1, i + Len(sub)) = sub

(***************************************************************************)
(* The country table of pycountry, cut down to three countries; what the   *)
(* rest of its data (other countries, subdivisions) matches is `fuzzy`.    *)
(***************************************************************************)
Countries ==
    { [alpha_2 |-> <<"U","S">>, name |-> <<"U","n","i","t","e","d"," ","S","t","a","t","e","s">>],
      [alpha_2 |-> <<"D","E">>, name |-> <<"G","e","r","m","a","n","y">>],
      [alpha_2 |-> <<"M","Y">>, name |-> <<"M","a","l","a","y","s","i","a">>] }

\* pc.countries.search_fuzzy(query): the countries whose code or name is the
\* query, or whose name contains it; LookupError (here: FALSE) when none does
search_fuzzy_finds(query) ==
    \/ \E c \in Countries :
          \/ lower(c.alpha_2) = query
          \/ lower(c.name) = query
          \/ InStr(query, lower(c.name))
    \/ query \in fuzzy

unallowed_values ==
    { <<"a","i","s","a">>, <<"a","f","r","i","c","a">>, <<"e","u","r","o","p","e">>,
      <<"n","o","r","t","h"," ","a","m","e","r","i","c","a">>,
      <<"s","o","u","t","h"," ","a","m","e","r","i","c","a">>,
      <<"a","u","s","t","r","a","l","i","a","/","o","c","e","a","n","i","a">>,
      <<"a","n","t","a","r","c","t","i","c","a">> }

iso_2 == {lower(c.alpha_2) : c \in Countries}

\* the body of the loop over country_distinct: whether `country` is appended
\* to country_invalid
country_is_invalid(country) ==
    /\ isstr(country)
    /\ LET country_clean == lower(country.s) IN
        IF country_clean \in unallowed_values \/ InStr(<<"w","o","r","l","d">>, country_clean)
        THEN TRUE
        ELSE IF Len(country_clean) = 2
             THEN country_clean \notin iso_2
             ELSE ~search_fuzzy_finds(country_clean)

(***************************************************************************)
(* Dataframes and the two accumulator tables                               *)
(***************************************************************************)
\* a dataframe: columns (ordered names), index (row labels), data (column -> cells)
NumRows(d) == Len(d.index)
HasCol(d, col) == col \in Range(d.columns)

\* result_df as built at validator.py:74: no summary row
EmptyResultDf == << >>

\* a rule over columns is a sequence of entries [col, param]
Entry(col, param) == [col |-> col, param |-> param]

\* rule parameters: a bound or length, a set of allowed values, a type name, none
IntP(n) == [k |-> "int", n |-> n]
SetP(S) == [k |-> "set", set |-> S]
TypeP(s) == [k |-> "type", name |-> s]
ListP(cols) == [k |-> "list", cols |-> cols]
NoP == [k |-> "none"]

\* a rule that is a list of columns, and the columns of a rule
ColList(cols) == [i \in 1..Len(cols) |-> Entry(cols[i], NoP)]
ColsOf(rule) == [i \in 1..Len(rule) |-> rule[i].col]

\* a rule parameter as stored in the str-typed column validation_rule
RuleName(s) == [t |-> "name", name |-> s]
RuleParam(p) == [t |-> "param", param |-> p]

\* number of failing cells of a mask
CountFalse(mask) == Cardinality({i \in 1..Len(mask) : ~mask[i]})

\* _append_result: one summary row (distinct_values, which nothing reads, left
\* out), and the mask as cell column {col}_{validation_type}
append_result(col, validation_type, validation_rule, validation_result, d, rd, ri) ==
    << Append(rd, [column_name |-> col,
                   validation_type |-> validation_type,
                   validation_rule |-> validation_rule,
                   pass |-> CountFalse(validation_result) = 0,
                   count |-> CountFalse(validation_result),
                   total |-> NumRows(d)]),
       [names |-> IF <<col, validation_type>> \in Range(ri.names) THEN ri.names
                  ELSE Append(ri.names, <<col, validation_type>>),
        cols |-> [n \in DOMAIN ri.cols \cup {<<col, validation_type>>} |->
                    IF n = <<col, validation_type>> THEN validation_result ELSE ri.cols[n]]] >>

(***************************************************************************)
(* validate_iso2                                                           *)
(***************************************************************************)
\* val_result = ~df[col].isin(country_invalid)
iso2_mask(d, col) ==
    LET country_distinct == Range(d.data[col])
        country_invalid == {c \in country_distinct : country_is_invalid(c)}
    IN [i \in 1..NumRows(d) |-> d.data[col][i] \notin country_invalid]

\* a loop body that runs for every column the rule names
MutIso2NoColumnCheck(d, col) == TRUE

\* `if col in df.columns`

iso2_col_selected(d, col) == HasCol(d, col)

RECURSIVE validate_iso2_from(_, _, _, _, _)
validate_iso2_from(d, rule, i, rd, ri) ==
    IF i > Len(rule) THEN <<rd, ri>>
    ELSE IF iso2_col_selected(d, rule[i].col)
         THEN LET \* (a column df lacks has no cell to pass)
                  mask == IF HasCol(d, rule[i].col) THEN iso2_mask(d, rule[i].col)
                          ELSE [j \in 1..NumRows(d) |-> FALSE]
                  r == append_result(rule[i].col, "iso2", RuleName("iso2"), mask, d, rd, ri)
              IN validate_iso2_from(d, rule, i + 1, r[1], r[2])
         ELSE validate_iso2_from(d, rule, i + 1, rd, ri)

validate_iso2(d, rule, rd, ri) ==
    IF Len(rule) > 0 THEN validate_iso2_from(d, rule, 1, rd, ri) ELSE <<rd, ri>>

\* result_index = df[hash_col].copy(): the hash columns, under their own names
\* (every hash column is a column of d when the code gets here)
hash_index(d, hash_col) ==
    LET present == SelectSeq(hash_col, LAMBDA c : HasCol(d, c)) IN
    [names |-> [i \in 1..Len(present) |-> <<present[i]>>],
     cols |-> [n \in {<<present[i]>> : i \in 1..Len(present)} |-> d.data[n[1]]]]

(***************************************************************************)
(* ColumnBinner.transform                                                  *)
(***************************************************************************)
\* the text of the float i.0, as astype("str") writes a bucket number
FloatStr(i) == [t |-> "floatstr", f |-> i]
NaN == [t |-> "nan"]

\* pd.cut(x=v, bins=bins, labels=labels) on one cell: right=True and
\* include_lowest=False are the defaults, so each bin is (bins[i], bins[i+1]]
pd_cut(v, bins, labels) ==
    IF isnull(v) THEN NaN
    ELSE IF \E i \in 1..Len(labels) : bins[i] < v.i /\ v.i <= bins[i + 1]
         THEN StrV(labels[CHOOSE i \in 1..Len(labels) : bins[i] < v.i /\ v.i <= bins[i + 1]])
         ELSE NaN

\* .astype("str") on the categorical pd.cut returns: NaN becomes the text "nan"
cat_astype_str(c) == IF c = NaN THEN StrV("nan") ELSE c

\* the pandas branch, one cell: the label, then np.nan where the input was null
transform_pd_cell(v, bins, labels) ==
    LET null_filter == isnull(v)
        cut == cat_astype_str(pd_cut(v, bins, labels))
    IN IF null_filter THEN Null ELSE cut

\* Bucketizer(splits, handleInvalid="keep") on one cell: bucket i is
\* [splits[i], splits[i+1]), the last one also holds its upper bound; a value
\* outside the splits is an error ("raise"); null stays null
bucketize(v, splits) ==
    IF isnull(v) THEN Null
    ELSE IF v.i = splits[Len(splits)] THEN IntV(Len(splits) - 2)
    ELSE IF \E i \in 1..(Len(splits) - 1) : splits[i] <= v.i /\ v.i < splits[i + 1]
         THEN IntV((CHOOSE i \in 1..(Len(splits) - 1) : splits[i] <= v.i /\ v.i < splits[i + 1]) - 1)
         ELSE [t |-> "raise"]

\* the koalas branch, one cell: astype("str") keeps null, then
\* X.replace({"0.0": labels[0], "1.0": labels[1], ...})
transform_ks_cell(v, bins, labels) ==
    LET b == bucketize(v, bins)
        s == IF b.t = "int" THEN FloatStr(b.i) ELSE b
    IN IF s.t = "floatstr" /\ s.f \in 0..(Len(bins) - 2) /\ s.f + 1 <= Len(labels)
       THEN StrV(labels[s.f + 1])
       ELSE s

\* transform(X): the to_column written, or the error raised
transform(X, self) ==
    IF self.dflib = "ks"
    THEN LET col == [i \in 1..Len(X) |-> transform_ks_cell(X[i], self.bins, self.labels)]
         IN IF \E i \in 1..Len(X) : col[i].t = "raise"
            THEN [raised |-> TRUE, to_column |-> << >>]
            ELSE [raised |-> FALSE, to_column |-> col]
    ELSE [raised |-> FALSE,
          to_column |-> [i \in 1..Len(X) |-> transform_pd_cell(X[i], self.bins, self.labels)]]

(***************************************************************************)
(* The validators ontology_validator calls besides validate_iso2. A rule   *)
(* over columns is a sequence of entries [col, param], in the order of the *)
(* rule's list or dict.                                                    *)
(***************************************************************************)
\* the cell test of each per-column validator
cell_ok(fn, x, param, column) ==
    CASE fn = "validate_non_nullable_fields" -> ~isnull(x)
      [] fn = "validate_allowed_values" -> isnull(x) \/ (x.t = "int" /\ x.i \in param.set)
      [] fn = "validate_min_value" -> x.t # "int" \/ x.i >= param.n
      [] fn = "validate_max_value" -> x.t # "int" \/ x.i <= param.n
      [] fn = "validate_minlen" -> ~isstr(x) \/ Len(x.s) >= param.n
      [] fn = "validate_maxlen" -> ~isstr(x) \/ Len(x.s) <= param.n
      [] fn = "validate_type" -> isnull(x) \/ x.t = param.name
      [] fn = "validate_duplicates" ->
            Cardinality({j \in 1..Len(column) : column[j] = x}) = 1
      [] fn = "validate_condition" -> x.t = "int" /\ x.i > param.n

\* validation_type each validator records (the cell column is {col}_{validation_type})
validation_type_of(fn) ==
    CASE fn = "validate_non_nullable_fields" -> "non_nullable"
      [] fn = "validate_allowed_values" -> "allowed_values"
      [] fn = "validate_min_value" -> "min"
      [] fn = "validate_max_value" -> "max"
      [] fn = "validate_minlen" -> "minlen"
      [] fn = "validate_maxlen" -> "maxlen"
      [] fn = "validate_type" -> "type"
      [] fn = "validate_duplicates" -> "duplicates"
      [] fn = "validate_condition" -> "condition"

\* validation_rule each validator records: the rule's own name for the rules
\* that take a list of columns, the rule's parameter for the others
validation_rule_of(fn, param) ==
    IF fn \in {"validate_non_nullable_fields", "validate_duplicates"}
    THEN RuleName(validation_type_of(fn))
    ELSE RuleParam(param)

RECURSIVE validate_columns_from(_, _, _, _, _, _)
validate_columns_from(fn, d, rule, i, rd, ri) ==
    IF i > Len(rule) THEN <<rd, ri>>
    ELSE IF HasCol(d, rule[i].col)
         THEN LET column == d.data[rule[i].col]
                  mask == [j \in 1..NumRows(d) |-> cell_ok(fn, column[j], rule[i].param, column)]
                  r == append_result(rule[i].col, validation_type_of(fn),
                                     validation_rule_of(fn, rule[i].param), mask, d, rd, ri)
              IN validate_columns_from(fn, d, rule, i + 1, r[1], r[2])
         ELSE validate_columns_from(fn, d, rule, i + 1, rd, ri)

\* validate_non_nullable_fields, validate_allowed_values, validate_min_value,
\* validate_max_value, validate_minlen, validate_maxlen, validate_type,
\* validate_duplicates, validate_condition
validate_columns(fn, d, rule, rd, ri) == validate_columns_from(fn, d, rule, 1, rd, ri)

\* the one summary row of a dataset-level check; it adds no cell column
all_columns_row(validation_type, rule, count, total) ==
    [column_name |-> "all_columns",
     validation_type |-> validation_type,
     validation_rule |-> RuleParam(ListP(ColsOf(rule))),
     pass |-> count = 0,
     count |-> count,
     total |-> total]

\* validate_col_complete: the column set of df against the expected set
validate_col_complete(d, rule, rd, ri) ==
    LET have == Range(d.columns)
        want == Range(ColsOf(rule))
        count == Cardinality((have \ want) \cup (want \ have))
    IN << Append(rd, all_columns_row("columns_complete", rule, count,
                                     Cardinality(have \cup want))), ri >>

\* validate_col_order: the column ordering of df against the expected ordering
validate_col_order(d, rule, rd, ri) ==
    LET n == IF Len(rule) > Len(d.columns) THEN Len(rule) ELSE Len(d.columns)
        count == Cardinality({i \in 1..n :
                    \/ i > Len(rule)
                    \/ i > Len(d.columns)
                    \/ rule[i].col # d.columns[i]})
    IN << Append(rd, all_columns_row("columns_order", rule, count, n)), ri >>

\* v(df=df, rule=..., result_df=result_df, result_index=result_index)
call(fn, d, rule, rd, ri) ==
    CASE fn = "validate_col_complete" -> validate_col_complete(d, rule, rd, ri)
      [] fn = "validate_col_order" -> validate_col_order(d, rule, rd, ri)
      [] fn = "validate_iso2" -> validate_iso2(d, rule, rd, ri)
      [] OTHER -> validate_columns(fn, d, rule, rd, ri)

(***************************************************************************)
(* ontology_validator                                                      *)
(***************************************************************************)
hard_validation == {"non_nullable", "allowed_values", "type"}

\* the rule set the loaded view yields, per registry key (display_name False)
ontology_rule(key) ==
    CASE key \in {"columns_complete", "columns_order"} -> ColList(<<"a", "c", "h">>)
      [] key = "non_nullable" -> <<Entry("a", NoP), Entry("z", NoP)>>
      [] key = "allowed_values" -> <<Entry("a", SetP({1, 2, 4}))>>
      [] key = "min_value" -> <<Entry("a", IntP(1))>>
      [] key = "max_value" -> <<Entry("a", IntP(4))>>
      [] key = "minlen" -> <<Entry("c", IntP(2))>>
      [] key = "maxlen" -> <<Entry("c", IntP(2))>>
      [] key = "type" -> <<Entry("a", TypeP("int")), Entry("c", TypeP("str"))>>

\* the dict ontology_validations, in insertion order: key and validator
ontology_validations ==
    << <<"columns_complete", "validate_col_complete">>,
       <<"columns_order", "validate_col_order">>,
       <<"non_nullable", "validate_non_nullable_fields">>,
       <<"allowed_values", "validate_allowed_values">>,
       <<"min_value", "validate_min_value">>,
       <<"max_value", "validate_max_value">>,
       <<"minlen", "validate_minlen">>,
       <<"maxlen", "validate_maxlen">>,
       <<"type", "validate_type">> >>

\* the dict validations, in insertion order: key and validator
validations ==
    << <<"columns_complete", "validate_col_complete">>,
       <<"columns_order", "validate_col_complete">>,
       <<"non_nullable", "validate_non_nullable_fields">>,
       <<"allowed_values", "validate_allowed_values">>,
       <<"min_value", "validate_min_value">>,
       <<"max_value", "validate_max_value">>,
       <<"minlen", "validate_minlen">>,
       <<"maxlen", "validate_maxlen">>,
       <<"type", "validate_type">>,
       <<"duplicates", "validate_duplicates">>,
       <<"iso2", "validate_iso2">>,
       <<"condition", "validate_condition">> >>

\* `k in validation_config` and validation_config[k], the dict being a
\* sequence of [key, rule] items in insertion order
config_has(validation_config, key) ==
    \E i \in 1..Len(validation_config) : validation_config[i].key = key
config_get(validation_config, key) ==
    validation_config[CHOOSE i \in 1..Len(validation_config) :
                          validation_config[i].key = key].rule

\* a check that looks at the first hash column only
MutMissingFirstHashColOnly(d, hash_col) ==
    IF hash_col = << >> THEN {} ELSE {hash_col[1]} \ Range(d.columns)

\* set(hash_col) - set(df.columns)
missing_hash_cols(d, hash_col) == Range(hash_col) \ Range(d.columns)

\* a loop that forgets disable_validation
MutSchemaRuleAlwaysEnabled(key, disable_validation) == TRUE

\* `if not k in disable_validation`
schema_rule_enabled(key, disable_validation) == key \notin disable_validation

\* result_df.drop_duplicates(): the first of equal rows is kept
RECURSIVE drop_duplicates(_)
drop_duplicates(rd) ==
    IF rd = << >> THEN << >>
    ELSE LET front == drop_duplicates(SubSeq(rd, 1, Len(rd) - 1))
             last == rd[Len(rd)]
         IN IF last \in Range(front) THEN front ELSE Append(front, last)

TimeStamp == [t |-> "timestamp"]

\* result_index["time_stamp"] = time_stamp
add_time_stamp(ri, n) ==
    [names |-> Append(ri.names, <<"time_stamp">>),
     cols |-> [c \in DOMAIN ri.cols \cup {<<"time_stamp">>} |->
                 IF c = <<"time_stamp">> THEN [i \in 1..n |-> TimeStamp] ELSE ri.cols[c]]]

\* error_df["validation_rule"].isin(hard_validation), on one row
rule_isin_hard(r) == r.validation_rule.t = "name" /\ r.validation_rule.name \in hard_validation

\* an error_df that keeps the hard failures only
MutErrorDfHardOnly(rd) == SelectSeq(rd, LAMBDA r : ~r.pass /\ rule_isin_hard(r))

\* error_df = result_df.loc[~result_df["pass"]]
error_df_of(rd) == SelectSeq(rd, LAMBDA r : ~r.pass)

hard_error_df_of(ed) == SelectSeq(ed, rule_isin_hard)

\* the rows not in hard_validation whose error_rate >= error_tolerance; the
\* tolerance is in percent, error_rate is count / total
soft_error_df_of(ed, error_tolerance) ==
    SelectSeq(ed, LAMBDA r : ~rule_isin_hard(r) /\ r.count * 100 >= error_tolerance * r.total)

\* how np.all reads one cell of the per-cell table: a mask column (a name of two
\* parts) holds booleans, a time stamp is true
cell_true(ri, name, i) ==
    IF Len(name) = 2 THEN ri.cols[name][i]
    ELSE IF ri.cols[name][i].t = "bool" THEN ri.cols[name][i].b ELSE TRUE

\* np.where(~np.all(result_index[set(result_index.columns) - set(hash_col)], axis=1))[0]:
\* the positions, from 0, of the rows with a cell that is not true
error_positions(ri, hash_col, n) ==
    LET checked == Range(ri.names) \ {<<hash_col[i]>> : i \in 1..Len(hash_col)}
    IN {i - 1 : i \in {j \in 1..n : \E name \in checked : ~cell_true(ri, name, j)}}

\* df_original.loc[set(df_original.index) - set(error_index_df.index)], as the
\* rows (numbered from 1) it selects: error_index_df is indexed by position, and
\* .loc selects every row that carries one of the labels left
clean_rows(d, errpos) == {i \in 1..NumRows(d) : d.index[i] \in Range(d.index) \ errpos}

\* list(set(error_index_df.columns) - set(["index", "time_stamp"]))
message_columns(ri) ==
    SelectSeq(ri.names, LAMBDA name : name \notin {<<"index">>, <<"time_stamp">>})

\* whether ~error_index_df[col] raises: the column holds text (a hash column can)
invert_raises(ri, col, errpos) ==
    \E p \in errpos : Len(col) = 1 /\ ri.cols[col][p + 1].t \notin {"bool"}

\* ~error_index_df[col] at position p
inverted(ri, col, p) ==
    IF Len(col) = 2 THEN ~ri.cols[col][p + 1] ELSE ~ri.cols[col][p + 1].b

\* message_df.loc[mask, ...]: mask is indexed by position, message_df by label;
\* a label that is no index value of the mask cannot be aligned
unalignable(d, errpos) == \E p \in errpos : d.index[p + 1] \notin errpos

\* the text the loop over columns builds for a message row labelled L: the
\* aligned mask gives it the cell at position L
RECURSIVE message_from(_, _, _, _)
message_from(ri, columns, i, L) ==
    IF i > Len(columns) THEN << >>
    ELSE (IF inverted(ri, columns[i], L) THEN <<columns[i], <<",">> >> ELSE << >>)
         \o message_from(ri, columns, i + 1, L)

\* .str[:-1]
drop_last(m) == IF m = << >> THEN m ELSE SubSeq(m, 1, Len(m) - 1)

\* lines 141-180: the nine-tuple returned, or the error the message loop raises
returned(d, c, rd, ri) ==
    LET error_df == error_df_of(rd)
        hard_error_df == hard_error_df_of(error_df)
        soft_error_df == soft_error_df_of(error_df, c.error_tolerance)
        pass_validation == error_df = << >>
        errpos == error_positions(ri, c.hash_col, NumRows(d))
        columns == message_columns(ri)
        loops == ~pass_validation /\ columns # << >>
    IN IF loops /\ \E i \in 1..Len(columns) : invert_raises(ri, columns[i], errpos)
       THEN [error |-> "TypeError"]
       ELSE IF loops /\ unalignable(d, errpos)
       THEN [error |-> "IndexingError"]
       ELSE [error |-> "none",
             pass_validation |-> pass_validation,
             error_df |-> [i \in 1..Len(error_df) |->
                             [row |-> error_df[i],
                              hard_soft_validation |->
                                 IF rule_isin_hard(error_df[i]) THEN "hard" ELSE "soft"]],
             pass_hard_validation |-> hard_error_df = << >>,
             hard_error_df |-> hard_error_df,
             pass_soft_validation |-> soft_error_df = << >>,
             soft_error_df |-> soft_error_df,
             error_index_df |-> errpos,
             clean_df |-> clean_rows(d, errpos),
             message_df |-> [p \in errpos |->
                               IF pass_validation THEN << >>
                               ELSE drop_last(message_from(ri, columns, 1, d.index[p + 1]))]]

(***************************************************************************)
(* Inputs                                                                  *)
(***************************************************************************)
US == <<"U", "S">>
XX == <<"X", "X">>

\* the cells (a, c) a row is drawn from
RowValues ==
    { [a |-> IntV(1), c |-> StrV(US)], [a |-> IntV(5), c |-> StrV(US)],
      [a |-> Null, c |-> StrV(XX)], [a |-> IntV(1), c |-> StrV(XX)] }

ColumnOrders == { <<"a", "c", "h">>, <<"c", "a", "h">>, <<"a", "h">> }

\* row labels: the default 0..n-1, 1..n, and one label shared by all rows
Indexes(n) == { [i \in 1..n |-> i - 1], [i \in 1..n |-> i], [i \in 1..n |-> 0] }

\* the hash column h holds booleans or text
HashCells(kind, n) ==
    IF kind = "bool" THEN [i \in 1..n |-> BoolV(i % 2 = 0)]
    ELSE [i \in 1..n |-> StrV(<<"i", "d">>)]

DataFrame(columns, index, rows, hkind) ==
    [columns |-> columns,
     index |-> index,
     data |-> [col \in Range(columns) |->
                 CASE col = "a" -> [i \in 1..Len(rows) |-> rows[i].a]
                   [] col = "c" -> [i \in 1..Len(rows) |-> rows[i].c]
                   [] col = "h" -> HashCells(hkind, Len(rows))]]

Item(key, rule) == [key |-> key, rule |-> rule]

\* the rule a caller gives for each key of validation_config
user_rule(key) ==
    CASE key \in {"columns_complete", "columns_order"} -> ColList(<<"a", "c", "h">>)
      [] key = "non_nullable" -> <<Entry("a", NoP)>>
      [] key = "allowed_values" -> <<Entry("a", SetP({1, 2, 4}))>>
      [] key = "min_value" -> <<Entry("a", IntP(3))>>
      [] key = "max_value" -> <<Entry("a", IntP(4))>>
      [] key = "minlen" -> <<Entry("c", IntP(2))>>
      [] key = "maxlen" -> <<Entry("z", IntP(1)), Entry("c", IntP(1))>>
      [] key = "type" -> <<Entry("a", TypeP("int"))>>
      [] key = "duplicates" -> <<Entry("c", NoP)>>
      [] key = "iso2" -> ColList(<<"z", "c">>)
      [] key = "condition" -> <<Entry("a", IntP(0))>>
      [] OTHER -> << >>

ConfigOf(keys) == [i \in 1..Len(keys) |-> Item(keys[i], user_rule(keys[i]))]

\* view_path given or not, disable_validation, validation_config
RunConfigs ==
    { [view_path |-> FALSE, disable_validation |-> {}, validation_config |-> ConfigOf(<< >>)],
      [view_path |-> TRUE, disable_validation |-> {}, validation_config |-> ConfigOf(<< >>)],
      [view_path |-> TRUE, disable_validation |-> {"columns_order", "min_value", "type"},
       validation_config |-> ConfigOf(<<"iso2", "unknown", "columns_order">>)],
      [view_path |-> FALSE, disable_validation |-> {"iso2"},
       validation_config |-> ConfigOf(<<"condition", "iso2", "duplicates", "type", "maxlen",
                                        "minlen", "max_value", "min_value", "allowed_values",
                                        "non_nullable", "columns_order", "columns_complete">>)],
      [view_path |-> FALSE, disable_validation |-> {}, validation_config |-> ConfigOf(<<"min_value">>)],
      [view_path |-> FALSE, disable_validation |-> {}, validation_config |-> ConfigOf(<<"allowed_values">>)],
      [view_path |-> FALSE, disable_validation |-> {}, validation_config |-> ConfigOf(<<"iso2", "non_nullable">>)] }

HashCols == { << >>, <<"h">>, <<"h", "z">> }

\* error_tolerance, in percent: the default 0.05, and 0.6
Tolerances == {5, 60}

NoRet == [error |-> "unset"]

(***************************************************************************)
(* One run of ontology_validator                                           *)
(***************************************************************************)
IsoBinIdle ==
    /\ isoDf = [columns |-> << >>, index |-> << >>, data |-> << >>]
    /\ isoRet = << >>
    /\ fuzzy = {}
    /\ binX = << >>
    /\ binSelf = [dflib |-> "none"]
    /\ binRet = NoRet

Init ==
    /\ pc = "start"
    /\ \E columns \in ColumnOrders, index \in Indexes(NRows),
          rows \in [1..NRows -> RowValues], hkind \in {"bool", "str"} :
          df = DataFrame(columns, index, rows, hkind)
    /\ \E r \in RunConfigs, hash_col \in HashCols, error_tolerance \in Tolerances :
          cfg = [error_tolerance |-> error_tolerance,
                 view_path |-> r.view_path,
                 validation_config |-> r.validation_config,
                 hash_col |-> hash_col,
                 disable_validation |-> r.disable_validation]
    /\ result_df = EmptyResultDf
    /\ result_index = [names |-> << >>, cols |-> << >>]
    /\ k = 0
    /\ executed = << >>
    /\ ret = NoRet
    /\ IsoBinIdle

\* lines 70-92: the hash columns are checked, then copied into result_index
CheckHashCol ==
    /\ pc = "start"
    /\ IF missing_hash_cols(df, cfg.hash_col) # {}
       THEN /\ pc' = "raised"
            /\ ret' = [error |-> "KeyError", missing |-> missing_hash_cols(df, cfg.hash_col)]
            /\ UNCHANGED <<result_index, k>>
       ELSE /\ result_index' = hash_index(df, cfg.hash_col)
            /\ pc' = IF cfg.view_path THEN "schema" ELSE "user"
            /\ k' = 1
            /\ UNCHANGED ret
    /\ UNCHANGED <<df, cfg, result_df, executed, isoDf, isoRet, fuzzy, binX, binSelf, binRet>>

\* lines 108-120: one iteration of the loop over ontology_validations
SchemaRule ==
    /\ pc = "schema"
    /\ LET key == ontology_validations[k][1]
           fn == ontology_validations[k][2]
           sub_validation_config == ontology_rule(key)
       IN IF schema_rule_enabled(key, cfg.disable_validation)
          THEN LET r == call(fn, df, sub_validation_config, result_df, result_index)
               IN /\ result_df' = r[1]
                  /\ result_index' = r[2]
                  /\ executed' = Append(executed, [from |-> "ontology", key |-> key, fn |-> fn])
          ELSE UNCHANGED <<result_df, result_index, executed>>
    /\ IF k = Len(ontology_validations)
       THEN pc' = "user" /\ k' = 1
       ELSE pc' = pc /\ k' = k + 1
    /\ UNCHANGED <<df, cfg, ret, isoDf, isoRet, fuzzy, binX, binSelf, binRet>>

\* lines 136-140: one iteration of the loop over validations
UserRule ==
    /\ pc = "user"
    /\ LET key == validations[k][1]
           fn == validations[k][2]
       IN IF config_has(cfg.validation_config, key)
          THEN LET r == call(fn, df, config_get(cfg.validation_config, key),
                             result_df, result_index)
               IN /\ result_df' = r[1]
                  /\ result_index' = r[2]
                  /\ executed' = Append(executed, [from |-> "config", key |-> key, fn |-> fn])
          ELSE UNCHANGED <<result_df, result_index, executed>>
    /\ IF k = Len(validations)
       THEN pc' = "finish" /\ k' = 0
       ELSE pc' = pc /\ k' = k + 1
    /\ UNCHANGED <<df, cfg, ret, isoDf, isoRet, fuzzy, binX, binSelf, binRet>>

\* lines 141-180: the tables are finished and the result is returned
Finish ==
    /\ pc = "finish"
    /\ result_df' = drop_duplicates(result_df)
    /\ result_index' = add_time_stamp(result_index, NumRows(df))
    /\ ret' = returned(df, cfg, result_df', result_index')
    /\ pc' = "done"
    /\ UNCHANGED <<df, cfg, k, executed, isoDf, isoRet, fuzzy, binX, binSelf, binRet>>

Next == CheckHashCol \/ SchemaRule \/ UserRule \/ Finish

Spec == Init /\ [][Next]_vars

(***************************************************************************)
(* validate_iso2 called on its own                                         *)
(***************************************************************************)
IsoValues ==
    { StrV(US), StrV(<<"u", "s">>), StrV(XX), StrV(<<"M", "y">>),
      StrV(<<"E", "u", "r", "o", "p", "e">>), StrV(<<"A", "s", "i", "a">>),
      StrV(<<"A", "f", "r", "i", "c", "a">>),
      StrV(<<"G", "e", "r", "m", "a", "n", "y">>),
      StrV(<<"A", "t", "l", "a", "n", "t", "i", "s">>),
      StrV(<<"N", "e", "w", " ", "W", "o", "r", "l", "d">>),
      Null, IntV(7) }

\* queries that are no code and no name of the cut-down table
FuzzyPool == { <<"a", "s", "i", "a">>, <<"a", "t", "l", "a", "n", "t", "i", "s">> }

ValidatorIdle ==
    /\ pc = "idle"
    /\ df = [columns |-> << >>, index |-> << >>, data |-> << >>]
    /\ cfg = [hash_col |-> << >>]
    /\ result_df = EmptyResultDf
    /\ result_index = [names |-> << >>, cols |-> << >>]
    /\ k = 0
    /\ executed = << >>
    /\ ret = NoRet

InitIso ==
    /\ ValidatorIdle
    /\ \E cells \in [1..IsoRows -> IsoValues] :
          isoDf = [columns |-> <<"country">>,
                   index |-> [i \in 1..IsoRows |-> i - 1],
                   data |-> [col \in {"country"} |-> cells]]
    /\ isoRet = << >>
    /\ fuzzy \in SUBSET FuzzyPool
    /\ binX = << >>
    /\ binSelf = [dflib |-> "none"]
    /\ binRet = NoRet

\* validate_iso2(df, ["region", "country"]) with fresh tables
CallIso2 ==
    /\ isoRet = << >>
    /\ isoDf.columns # << >>
    /\ isoRet' = validate_iso2(isoDf, ColList(<<"region", "country">>), EmptyResultDf,
                               [names |-> << >>, cols |-> << >>])
    /\ UNCHANGED <<pc, df, cfg, result_df, result_index, k, executed, ret,
                   isoDf, fuzzy, binX, binSelf, binRet>>

NextIso == CallIso2

SpecIso == InitIso /\ [][NextIso]_vars

(***************************************************************************)
(* ColumnBinner.transform called on a dataframe                            *)
(***************************************************************************)
BinValues == {Null} \cup {IntV(v) : v \in {-1, 0, 5, 10, 15, 20, 25}}

BinParams ==
    { [bins |-> <<0, 10, 20>>, labels |-> <<"low", "high">>],
      [bins |-> <<0, 5, 10, 20>>, labels |-> <<"low", "mid", "high">>] }

InitBin ==
    /\ ValidatorIdle
    /\ isoDf = [columns |-> << >>, index |-> << >>, data |-> << >>]
    /\ isoRet = << >>
    /\ fuzzy = {}
    /\ binX \in [1..BinRows -> BinValues]
    /\ \E p \in BinParams, dflib \in {"pd", "ks"} :
          binSelf = [dflib |-> dflib, bins |-> p.bins, labels |-> p.labels]
    /\ binRet = NoRet

\* transform(X)
Transform ==
    /\ binRet = NoRet
    /\ binSelf.dflib # "none"
    /\ binRet' = transform(binX, binSelf)
    /\ UNCHANGED <<pc, df, cfg, result_df, result_index, k, executed, ret,
                   isoDf, isoRet, fuzzy, binX, binSelf>>

NextBin == Transform

SpecBin == InitBin /\ [][NextBin]_vars

(***************************************************************************)
(* Properties                                                              *)
(***************************************************************************)
Returned == pc = "done" /\ ret.error = "none"

\* the cell-result columns (named {col}_{rule}) that are False for row i
FailingPairs(i) ==
    {name \in Range(result_index.names) : Len(name) = 2 /\ ~result_index.cols[name][i]}

HardKinds == {"non_nullable", "allowed_values", "type"}

C2_HardPassIffNoHardKindFails ==
    Returned =>
        /\ ret.pass_hard_validation <=>
              (\A i \in 1..Len(result_df) :
                  result_df[i].validation_type \in HardKinds => result_df[i].count = 0)
        /\ \A i \in 1..Len(result_df) :
              (result_df[i].validation_type \in HardKinds /\ result_df[i].count > 0) =>
                  /\ result_df[i] \in Range(ret.hard_error_df)
                  /\ result_df[i] \notin Range(ret.soft_error_df)

\* C3: a hash column that is no column of df raises the missing-column error
\* before any validator has run and nothing is returned; when every hash column
\* is a column of df that error is not raised.
C3_MissingHashColRaisesFirst ==
    LET missing == Range(cfg.hash_col) \ Range(df.columns) IN
    /\ missing # {} =>
          /\ executed = << >>
          /\ result_df = << >>
          /\ pc \in {"start", "raised"}
          /\ pc = "raised" => ret = [error |-> "KeyError", missing |-> missing]
    /\ missing = {} => (pc # "raised" /\ ret.error # "KeyError")

C3_Witness ==
    /\ pc = "raised"
    /\ ret.error = "KeyError"
    /\ "z" \in ret.missing
    /\ cfg.validation_config # << >>

\* C4: clean_df holds exactly the rows whose cell results are True in every
\* non-hash cell-result column, whatever the row index of df is.
C4_CleanDfIsAllTrueRows ==
    Returned => ret.clean_df = {i \in 1..NumRows(df) : FailingPairs(i) = {}}

\* the names a message holds, and whether it is a comma-separated list
NamesOf(message) == Range(message) \ {<<",">>}
CommaSeparated(message) ==
    \A j \in 1..Len(message) : (message[j] = <<",">>) <=> (j % 2 = 0)

\* C5: the message of a row with a failing cell is the comma-separated list of
\* exactly the names of the cell-result columns that are False for that row; it
\* names no hash column and not time_stamp.
C5_MessageNamesFailingPairs ==
    Returned =>
        \A i \in 1..NumRows(df) :
            FailingPairs(i) # {} =>
                /\ (i - 1) \in DOMAIN ret.message_df
                /\ NamesOf(ret.message_df[i - 1]) = FailingPairs(i)
                /\ CommaSeparated(ret.message_df[i - 1])
                /\ Len(ret.message_df[i - 1]) = 2 * Cardinality(FailingPairs(i)) - 1

\* the order the claim gives
SchemaOrder ==
    <<"columns_complete", "columns_order", "non_nullable", "allowed_values", "min_value",
      "max_value", "minlen", "maxlen", "type">>
ConfigOrder == SchemaOrder \o <<"duplicates", "iso2", "condition">>

ExpectedCalls ==
    (IF cfg.view_path
     THEN [i \in 1..Len(SelectSeq(SchemaOrder, LAMBDA key : key \notin cfg.disable_validation)) |->
             <<"ontology", SelectSeq(SchemaOrder, LAMBDA key : key \notin cfg.disable_validation)[i]>>]
     ELSE << >>)
    \o [i \in 1..Len(SelectSeq(ConfigOrder, LAMBDA key : config_has(cfg.validation_config, key))) |->
          <<"config", SelectSeq(ConfigOrder, LAMBDA key : config_has(cfg.validation_config, key))[i]>>]

Calls == [i \in 1..Len(executed) |-> <<executed[i].from, executed[i].key>>]

\* C6: the schema-derived rules run in the order columns_complete,
\* columns_order, non_nullable, allowed_values, min_value, max_value, minlen,
\* maxlen, type, none of them when named in disable_validation; the rules of
\* validation_config run after them, in that order followed by duplicates, iso2,
\* condition, whatever the key order of validation_config.
C6_FixedOrder ==
    /\ Len(Calls) <= Len(ExpectedCalls)
    /\ Calls = SubSeq(ExpectedCalls, 1, Len(Calls))
    /\ pc \in {"finish", "done"} => Calls = ExpectedCalls

C6_Witness ==
    /\ pc = "done"
    /\ cfg.view_path
    /\ "columns_order" \in cfg.disable_validation
    /\ Len(cfg.validation_config) > 1
    /\ cfg.validation_config[1].key = "iso2"
    /\ Calls = ExpectedCalls
    /\ Len(Calls) = 8

ContinentNames ==
    { <<"a","s","i","a">>, <<"a","f","r","i","c","a">>, <<"e","u","r","o","p","e">>,
      <<"n","o","r","t","h"," ","a","m","e","r","i","c","a">>,
      <<"s","o","u","t","h"," ","a","m","e","r","i","c","a">>,
      <<"a","u","s","t","r","a","l","i","a","/","o","c","e","a","n","i","a">>,
      <<"a","n","t","a","r","c","t","i","c","a">> }

\* the cells the claim says fail
ClaimedInvalid(x) ==
    /\ isstr(x)
    /\ \/ lower(x.s) \in ContinentNames
       \/ InStr(<<"w","o","r","l","d">>, lower(x.s))
       \/ Len(x.s) = 2 /\ lower(x.s) \notin iso_2
       \/ Len(x.s) # 2 /\ ~search_fuzzy_finds(lower(x.s))

\* C7: validate_iso2 marks a cell as failing exactly when its text, compared
\* case-insensitively, is a continent name or contains "world", or has 2
\* characters and is no ISO-2 code, or has another length and no fuzzy country
\* match; every other cell passes.
C7_Iso2MaskAsClaimed ==
    isoRet # << >> =>
        \A i \in 1..NumRows(isoDf) :
            isoRet[2].cols[<<"country", "iso2">>][i] = ~ClaimedInvalid(isoDf.data["country"][i])

\* the label the claim gives a value
ClaimedLabel(x, bins, labels) ==
    IF isnull(x) THEN Null
    ELSE IF \E i \in 1..Len(labels) :
               bins[i] <= x.i /\ (x.i < bins[i + 1] \/ (i = Len(labels) /\ x.i = bins[i + 1]))
         THEN StrV(labels[CHOOSE i \in 1..Len(labels) :
               bins[i] <= x.i /\ (x.i < bins[i + 1] \/ (i = Len(labels) /\ x.i = bins[i + 1]))])
         ELSE Null

\* C8: transform writes labels[i] for a value v with bins[i] <= v < bins[i+1]
\* (the last bin also holding its upper bound), null for a null value and null
\* for a value outside the range of bins.
C8_BinLabelsAsClaimed ==
    binRet # NoRet =>
        /\ ~binRet.raised
        /\ \A i \in 1..Len(binX) :
              binRet.to_column[i] = ClaimedLabel(binX[i], binSelf.bins, binSelf.labels)

\* the call of the user-supplied iso2 rule has been made
Iso2RuleRan == \E i \in 1..Len(executed) : executed[i].from = "config" /\ executed[i].key = "iso2"

\* C9: a column an iso2 rule names that is no column of df raises no error and
\* adds no summary row and no cell column; the other columns of the rule and the
\* other rules of the run are still processed.
C9_AbsentColumnSkipped ==
    /\ \A i \in 1..Len(result_df) :
          result_df[i].validation_type = "iso2" => HasCol(df, result_df[i].column_name)
    /\ \A name \in Range(result_index.names) :
          (Len(name) = 2 /\ name[2] = "iso2") => HasCol(df, name[1])
    /\ Iso2RuleRan =>
          /\ pc # "raised"
          /\ \A col \in Range(ColsOf(config_get(cfg.validation_config, "iso2"))) :
                HasCol(df, col) =>
                   /\ <<col, "iso2">> \in Range(result_index.names)
                   /\ \E i \in 1..Len(result_df) :
                         result_df[i].column_name = col /\ result_df[i].validation_type = "iso2"
    /\ (pc \in {"finish", "done"} /\ Iso2RuleRan /\ config_has(cfg.validation_config, "condition")) =>
          \E i \in 1..Len(executed) : executed[i].key = "condition"

\* the rule <<"z", "c">> has run on a df without z and with c, and the
\* condition rule after it
C9_Witness ==
    /\ pc = "done"
    /\ Iso2RuleRan
    /\ ColsOf(config_get(cfg.validation_config, "iso2")) = <<"z", "c">>
    /\ ~HasCol(df, "z")
    /\ HasCol(df, "c")
    /\ <<"c", "iso2">> \in Range(result_index.names)
    /\ executed[Len(executed)].key = "condition"

\* the validator of each rule kind
ValidatorOfKind(key) ==
    CASE key = "columns_complete" -> "validate_col_complete"
      [] key = "columns_order" -> "validate_col_order"
      [] key = "non_nullable" -> "validate_non_nullable_fields"
      [] key = "allowed_values" -> "validate_allowed_values"
      [] key = "min_value" -> "validate_min_value"
      [] key = "max_value" -> "validate_max_value"
      [] key = "minlen" -> "validate_minlen"
      [] key = "maxlen" -> "validate_maxlen"
      [] key = "type" -> "validate_type"
      [] key = "duplicates" -> "validate_duplicates"
      [] key = "iso2" -> "validate_iso2"
      [] key = "condition" -> "validate_condition"

\* C10: every rule of validation_config is run by the validator of its own
\* kind; a user-supplied columns_order rule fails a df that has the expected
\* columns in another order.
C10_UserRuleRunsOwnValidator ==
    /\ \A i \in 1..Len(executed) :
          executed[i].from = "config" => executed[i].fn = ValidatorOfKind(executed[i].key)
    /\ (/\ pc \in {"finish", "done"}
        /\ ~cfg.view_path
        /\ config_has(cfg.validation_config, "columns_order")
        /\ Range(df.columns) = Range(ColsOf(config_get(cfg.validation_config, "columns_order")))
        /\ df.columns # ColsOf(config_get(cfg.validation_config, "columns_order")))
       => \E i \in 1..Len(result_df) :
             result_df[i].validation_type = "columns_order" /\ ~result_df[i].pass

====
